---- MODULE Spec2Model ----
(***************************************************************************)
(* Blogicum (blog/views.py, blog/forms.py): post visibility, ownership     *)
(* checks on post/comment mutation, and the three post feeds.              *)
(* Each action is one HTTP request handled by one class-based view; resp   *)
(* holds the request just handled together with its outcome.               *)
(***************************************************************************)
EXTENDS Integers, Sequences, FiniteSets, TLC

\* ---------------------------------------------------------------- bounds
MaxPosts == 2       \* posts ever created (primary keys 1..MaxPosts)
MaxComments == 1    \* comments ever created
MaxTime == 1        \* clock ticks

\* ---------------------------------------------------------------- domains
Users == {"u1", "u2"}
Anonymous == "anon"
Viewers == Users \cup {Anonymous}
Usernames == Users \cup {"nobody"}

\* Category rows (seed data, managed outside the views): slug -> is_published
Category == [news |-> TRUE, draft |-> FALSE]
Slugs == DOMAIN Category \cup {"nocat"}

Times == 0..MaxTime
PostPks == 1..MaxPosts
CommentPks == 1..MaxComments
Pages == 1..(MaxPosts + 1)
Texts == {"a", "b"}
Methods == {"GET", "POST"}

POSTS_PER_PAGE == 1

\* Submitted form data: every model field may be present in the POST body.
PubDates == {0, MaxTime}       \* the first and the last instant of the clock
PostData == [author : Users, is_published : BOOLEAN,
             category : DOMAIN Category, pub_date : PubDates]
CommentData == [text : Texts, author : Users, post : PostPks]

PostModelFields == {"author", "is_published", "category", "pub_date"}
CommentModelFields == {"text", "author", "post"}

VARIABLES now, posts, comments, nextPostPk, nextCommentPk,
          postCreator, commentOrigin, resp

vars == <<now, posts, comments, nextPostPk, nextCommentPk,
          postCreator, commentOrigin, resp>>

store == <<posts, comments, nextPostPk, nextCommentPk, postCreator, commentOrigin>>

\* ---------------------------------------------------------------- responses
NoCount == -1       \* a queryset row without the comments_count annotation

Response(op, viewer, pk, cpk, name, page, method, outcome, ol, items) ==
    [op |-> op, viewer |-> viewer, pk |-> pk, cpk |-> cpk, name |-> name,
     page |-> page, method |-> method, outcome |-> outcome,
     object_list |-> ol, page_items |-> items]

Idle == Response("none", Anonymous, 0, 0, "", 0, "", "none", <<>>, <<>>)

\* ---------------------------------------------------------------- forms
\* Variant: author left out of Meta.exclude.
PostFormFields_AuthorEditable == PostModelFields \ {"is_published"}

PostFormFields == PostModelFields \ {"author", "is_published"}

CommentFormFields == {"text"}

\* ModelForm.save: only the form's fields are copied from the submitted data.
ApplyForm(fields, instance, data) ==
    [f \in DOMAIN instance |-> IF f \in fields THEN data[f] ELSE instance[f]]

\* ---------------------------------------------------------------- querysets
CommentsCount(pk) ==
    Cardinality({c \in DOMAIN comments : comments[c].post = pk})

\* order_by('-pub_date'); rows with equal pub_date in primary-key order
RECURSIVE OrderByPubDateDesc(_)
OrderByPubDateDesc(S) ==
    IF S = {} THEN <<>>
    ELSE LET x == CHOOSE a \in S : \A b \in S :
                     \/ posts[a].pub_date > posts[b].pub_date
                     \/ posts[a].pub_date = posts[b].pub_date /\ a <= b
         IN <<x>> \o OrderByPubDateDesc(S \ {x})

\* no order_by: rows in primary-key order
RECURSIVE OrderByPk(_)
OrderByPk(S) ==
    IF S = {} THEN <<>>
    ELSE LET x == CHOOSE a \in S : \A b \in S : a <= b
         IN <<x>> \o OrderByPk(S \ {x})

Annotate(seq) ==
    [i \in DOMAIN seq |-> [pk |-> seq[i], comments_count |-> CommentsCount(seq[i])]]

Plain(seq) ==
    [i \in DOMAIN seq |-> [pk |-> seq[i], comments_count |-> NoCount]]

\* Variant: the pub_date__lte filter left out.
PostListView_get_queryset_NoDateFilter ==
    Annotate(OrderByPubDateDesc(
        {pk \in DOMAIN posts : /\ posts[pk].is_published
                               /\ Category[posts[pk].category]}))

PostListView_get_queryset ==
    Annotate(OrderByPubDateDesc(
        {pk \in DOMAIN posts : /\ posts[pk].is_published
                               /\ Category[posts[pk].category]
                               /\ posts[pk].pub_date <= now}))

ProfileListView_get_queryset(username, viewer) ==
    IF viewer # username
    THEN Annotate(OrderByPubDateDesc(
             {pk \in DOMAIN posts : posts[pk].is_published /\ posts[pk].pub_date <= now}))
    ELSE Annotate(OrderByPubDateDesc(
             {pk \in DOMAIN posts : posts[pk].author = viewer}))

CategoryPostListView_get_queryset(slug) ==
    Plain(OrderByPk(
        {pk \in DOMAIN posts : /\ posts[pk].category = slug
                               /\ posts[pk].is_published
                               /\ Category[posts[pk].category]
                               /\ posts[pk].pub_date <= now}))

\* ---------------------------------------------------------------- pagination
NumPages(ol) ==
    IF Len(ol) = 0 THEN 1 ELSE (Len(ol) + POSTS_PER_PAGE - 1) \div POSTS_PER_PAGE

PageItems(ol, n) ==
    LET lo == (n - 1) * POSTS_PER_PAGE + 1
        hi == IF n * POSTS_PER_PAGE < Len(ol) THEN n * POSTS_PER_PAGE ELSE Len(ol)
    IN SubSeq(ol, lo, hi)

\* Variant: a page past the last one is accepted (an empty page).
PageIsValid_NoUpperBound(ol, n) == n >= 1

\* ListView.paginate_queryset: Paginator.page raises InvalidPage -> Http404
PageIsValid(ol, n) == n >= 1 /\ n <= NumPages(ol)

\* ---------------------------------------------------------------- lookups
\* Variant: the category's is_published is not looked at.
PostDetailView_get_object_NoCategoryCheck(viewer, pk) ==
    IF pk \notin DOMAIN posts THEN "404"
    ELSE LET post == posts[pk] IN
         IF viewer # post.author /\ (~post.is_published) THEN "404"
         ELSE IF post.pub_date > now /\ viewer # post.author THEN "404"
         ELSE "ok"

PostDetailView_get_object(viewer, pk) ==
    IF pk \notin DOMAIN posts THEN "404"
    ELSE LET post == posts[pk] IN
         IF viewer # post.author
            /\ ((~Category[post.category]) \/ (~post.is_published))
         THEN "404"
         ELSE IF post.pub_date > now /\ viewer # post.author THEN "404"
         ELSE "ok"

\* Variant: dispatch without the author comparison.
PostUpdateMixin_dispatch_NoAuthorCheck(viewer, pk) ==
    IF pk \notin DOMAIN posts THEN "404" ELSE "proceed"

PostUpdateMixin_dispatch(viewer, pk) ==
    IF pk \notin DOMAIN posts THEN "404"
    ELSE IF viewer # posts[pk].author THEN "redirect_detail"
    ELSE "proceed"

\* Variant: the comment is looked up by its own pk only.
CommentUpdateMixin_get_object_AnyPost(viewer, post_pk, comment_pk) ==
    IF comment_pk \notin DOMAIN comments THEN "404"
    ELSE IF comments[comment_pk].author # viewer THEN "404"
    ELSE "ok"

CommentUpdateMixin_get_object(viewer, post_pk, comment_pk) ==
    IF ~(comment_pk \in DOMAIN comments /\ comments[comment_pk].post = post_pk)
    THEN "404"
    ELSE IF comments[comment_pk].author # viewer THEN "404"
    ELSE "ok"

Remove(f, k) == [x \in DOMAIN f \ {k} |-> f[x]]

\* ---------------------------------------------------------------- state
PostRow == [author : Users, is_published : BOOLEAN,
            category : DOMAIN Category, pub_date : PubDates]
CommentRow == [text : Texts, author : Users, post : PostPks]

TypeOK ==
    /\ now \in Times
    /\ nextPostPk \in 1..(MaxPosts + 1)
    /\ nextCommentPk \in 1..(MaxComments + 1)
    /\ DOMAIN posts \subseteq 1..(nextPostPk - 1)
    /\ \A pk \in DOMAIN posts : posts[pk] \in PostRow
    /\ DOMAIN comments \subseteq 1..(nextCommentPk - 1)
    /\ \A c \in DOMAIN comments :
          comments[c] \in CommentRow /\ comments[c].post \in DOMAIN posts
    /\ DOMAIN postCreator = DOMAIN posts
    /\ DOMAIN commentOrigin = DOMAIN comments

\* ---------------------------------------------------------------- initial state
Init ==
    /\ now = 0
    /\ posts = <<>>
    /\ comments = <<>>
    /\ nextPostPk = 1
    /\ nextCommentPk = 1
    /\ postCreator = <<>>
    /\ commentOrigin = <<>>
    /\ resp = Idle

\* ---------------------------------------------------------------- clock
Tick ==
    /\ now < MaxTime
    /\ now' = now + 1
    /\ resp' = Idle
    /\ UNCHANGED store

\* ---------------------------------------------------------------- post views
\* PostDetailView: GET posts/<post_pk>/
PostDetail(viewer, pk) ==
    /\ resp' = Response("post_detail", viewer, pk, 0, "", 0, "GET",
                        PostDetailView_get_object(viewer, pk), <<>>, <<>>)
    /\ UNCHANGED <<now, store>>

\* PostCreateView: POST posts/create/ with a valid form. is_published is not a
\* form field, so the new row takes the model's value for it (dflt).
PostCreate(viewer, data, dflt) ==
    /\ nextPostPk <= MaxPosts
    /\ IF viewer = Anonymous
       THEN /\ resp' = Response("create_post", viewer, 0, 0, "", 0, "POST",
                                "redirect_login", <<>>, <<>>)
            /\ UNCHANGED <<now, store>>
       ELSE LET blank == [author |-> viewer, is_published |-> dflt,
                          category |-> data.category, pub_date |-> data.pub_date]
                instance == [ApplyForm(PostFormFields, blank, data)
                                EXCEPT !.author = viewer]
            IN /\ posts' = (nextPostPk :> instance) @@ posts
               /\ postCreator' = (nextPostPk :> viewer) @@ postCreator
               /\ nextPostPk' = nextPostPk + 1
               /\ resp' = Response("create_post", viewer, nextPostPk, 0, "", 0,
                                   "POST", "redirect_profile", <<>>, <<>>)
               /\ UNCHANGED <<now, comments, nextCommentPk, commentOrigin>>

\* PostUpdateView: GET/POST posts/<post_pk>/edit/
PostUpdate(viewer, pk, method, data) ==
    LET gate == IF viewer = Anonymous THEN "redirect_login"
                ELSE PostUpdateMixin_dispatch(viewer, pk)
    IN IF gate # "proceed"
       THEN /\ resp' = Response("edit_post", viewer, pk, 0, "", 0, method,
                                gate, <<>>, <<>>)
            /\ UNCHANGED <<now, store>>
       ELSE IF method = "GET"
       THEN /\ resp' = Response("edit_post", viewer, pk, 0, "", 0, method,
                                "form", <<>>, <<>>)
            /\ UNCHANGED <<now, store>>
       ELSE /\ posts' = [posts EXCEPT ![pk] = ApplyForm(PostFormFields, @, data)]
            /\ resp' = Response("edit_post", viewer, pk, 0, "", 0, method,
                                "redirect_detail", <<>>, <<>>)
            /\ UNCHANGED <<now, comments, nextPostPk, nextCommentPk,
                           postCreator, commentOrigin>>

\* Comment.post is a foreign key: the comments of a deleted post go with it.
CommentsAfterPostDelete(pk) ==
    {c \in DOMAIN comments : comments[c].post # pk}

\* PostDeleteView: GET/POST posts/<post_pk>/delete/
PostDelete(viewer, pk, method) ==
    LET gate == IF viewer = Anonymous THEN "redirect_login"
                ELSE PostUpdateMixin_dispatch(viewer, pk)
    IN IF gate # "proceed"
       THEN /\ resp' = Response("delete_post", viewer, pk, 0, "", 0, method,
                                gate, <<>>, <<>>)
            /\ UNCHANGED <<now, store>>
       ELSE IF method = "GET"
       THEN /\ resp' = Response("delete_post", viewer, pk, 0, "", 0, method,
                                "form", <<>>, <<>>)
            /\ UNCHANGED <<now, store>>
       ELSE /\ posts' = Remove(posts, pk)
            /\ postCreator' = Remove(postCreator, pk)
            /\ comments' = [c \in CommentsAfterPostDelete(pk) |-> comments[c]]
            /\ commentOrigin' = [c \in CommentsAfterPostDelete(pk) |-> commentOrigin[c]]
            /\ resp' = Response("delete_post", viewer, pk, 0, "", 0, method,
                                "redirect_index", <<>>, <<>>)
            /\ UNCHANGED <<now, nextPostPk, nextCommentPk>>

\* ---------------------------------------------------------------- comment views
\* CommentCreateView: POST posts/<post_pk>/comment with a valid form
CommentCreate(viewer, pk, data) ==
    /\ nextCommentPk <= MaxComments
    /\ IF viewer = Anonymous \/ pk \notin DOMAIN posts
       THEN /\ resp' = Response("add_comment", viewer, pk, 0, "", 0, "POST",
                                IF viewer = Anonymous THEN "redirect_login" ELSE "404",
                                <<>>, <<>>)
            /\ UNCHANGED <<now, store>>
       ELSE LET blank == [text |-> data.text, author |-> viewer, post |-> pk]
                instance == [ApplyForm(CommentFormFields, blank, data)
                                EXCEPT !.post = pk, !.author = viewer]
            IN /\ comments' = (nextCommentPk :> instance) @@ comments
               /\ commentOrigin' = (nextCommentPk :> [author |-> viewer, post |-> pk])
                                       @@ commentOrigin
               /\ nextCommentPk' = nextCommentPk + 1
               /\ resp' = Response("add_comment", viewer, pk, nextCommentPk, "", 0,
                                   "POST", "redirect_detail", <<>>, <<>>)
               /\ UNCHANGED <<now, posts, nextPostPk, postCreator>>

\* CommentUpdateView: GET/POST posts/<post_pk>/edit_comment/<comment_pk>
CommentUpdate(viewer, post_pk, comment_pk, method, data) ==
    LET gate == IF viewer = Anonymous THEN "redirect_login"
                ELSE CommentUpdateMixin_get_object(viewer, post_pk, comment_pk)
    IN IF gate # "ok"
       THEN /\ resp' = Response("edit_comment", viewer, post_pk, comment_pk, "", 0,
                                method, gate, <<>>, <<>>)
            /\ UNCHANGED <<now, store>>
       ELSE IF method = "GET"
       THEN /\ resp' = Response("edit_comment", viewer, post_pk, comment_pk, "", 0,
                                method, "form", <<>>, <<>>)
            /\ UNCHANGED <<now, store>>
       ELSE /\ comments' = [comments EXCEPT
                               ![comment_pk] = ApplyForm(CommentFormFields, @, data)]
            /\ resp' = Response("edit_comment", viewer, post_pk, comment_pk, "", 0,
                                method, "redirect_detail", <<>>, <<>>)
            /\ UNCHANGED <<now, posts, nextPostPk, nextCommentPk,
                           postCreator, commentOrigin>>

\* CommentDeleteView: GET/POST posts/<post_pk>/delete_comment/<comment_pk>/
CommentDelete(viewer, post_pk, comment_pk, method) ==
    LET gate == IF viewer = Anonymous THEN "redirect_login"
                ELSE CommentUpdateMixin_get_object(viewer, post_pk, comment_pk)
    IN IF gate # "ok"
       THEN /\ resp' = Response("delete_comment", viewer, post_pk, comment_pk, "", 0,
                                method, gate, <<>>, <<>>)
            /\ UNCHANGED <<now, store>>
       ELSE IF method = "GET"
       THEN /\ resp' = Response("delete_comment", viewer, post_pk, comment_pk, "", 0,
                                method, "form", <<>>, <<>>)
            /\ UNCHANGED <<now, store>>
       ELSE /\ comments' = Remove(comments, comment_pk)
            /\ commentOrigin' = Remove(commentOrigin, comment_pk)
            /\ resp' = Response("delete_comment", viewer, post_pk, comment_pk, "", 0,
                                method, "redirect_detail", <<>>, <<>>)
            /\ UNCHANGED <<now, posts, nextPostPk, nextCommentPk, postCreator>>

\* ---------------------------------------------------------------- feeds
\* ListView.get: get_queryset, then get_context_data paginates it.
Listing(op, viewer, name, page, ol, found) ==
    IF PageIsValid(ol, page) /\ found
    THEN Response(op, viewer, 0, 0, name, page, "GET", "ok", ol, PageItems(ol, page))
    ELSE Response(op, viewer, 0, 0, name, page, "GET", "404", <<>>, <<>>)

\* PostListView: GET /?page=n
PostList(viewer, page) ==
    /\ resp' = Listing("index", viewer, "", page, PostListView_get_queryset, TRUE)
    /\ UNCHANGED <<now, store>>

\* ProfileListView: GET profile/<username>/?page=n
ProfileList(viewer, username, page) ==
    /\ resp' = IF username \notin Users
               THEN Response("profile", viewer, 0, 0, username, page, "GET", "404",
                             <<>>, <<>>)
               ELSE Listing("profile", viewer, username, page,
                            ProfileListView_get_queryset(username, viewer), TRUE)
    /\ UNCHANGED <<now, store>>

\* Variant: the category is looked up by slug alone.
CategoryFound_AnyState(slug) == slug \in DOMAIN Category

\* get_object_or_404(Category, slug=..., is_published=True) in get_context_data
CategoryFound(slug) == slug \in DOMAIN Category /\ Category[slug]

\* CategoryPostListView: GET category/<category_slug>/?page=n
CategoryPostList(viewer, slug, page) ==
    /\ resp' = Listing("category", viewer, slug, page,
                       CategoryPostListView_get_queryset(slug), CategoryFound(slug))
    /\ UNCHANGED <<now, store>>

\* ---------------------------------------------------------------- specifications
\* Every view, with every request.
Next ==
    \/ Tick
    \/ \E v \in Viewers, d \in PostData, b \in BOOLEAN : PostCreate(v, d, b)
    \/ \E v \in Viewers, pk \in PostPks, m \in Methods, d \in PostData :
          PostUpdate(v, pk, m, d)
    \/ \E v \in Viewers, pk \in PostPks, m \in Methods : PostDelete(v, pk, m)
    \/ \E v \in Viewers, pk \in PostPks : PostDetail(v, pk)
    \/ \E v \in Viewers, pk \in PostPks, d \in CommentData : CommentCreate(v, pk, d)
    \/ \E v \in Viewers, pk \in PostPks, c \in CommentPks, m \in Methods,
          d \in CommentData : CommentUpdate(v, pk, c, m, d)
    \/ \E v \in Viewers, pk \in PostPks, c \in CommentPks, m \in Methods :
          CommentDelete(v, pk, c, m)
    \/ \E v \in Viewers, n \in Pages : PostList(v, n)
    \/ \E v \in Viewers, u \in Usernames, n \in Pages : ProfileList(v, u, n)
    \/ \E v \in Viewers, s \in Slugs, n \in Pages : CategoryPostList(v, s, n)

Spec == Init /\ [][Next]_vars

\* The specifications below are parts of Spec: the views one group of properties
\* is about, with the form data narrowed to the fields those views read.

\* Form data that differs only in the fields PostForm and CommentForm accept.
PlainPostData == {d \in PostData : d.author = "u1" /\ d.is_published}
PlainCommentData == {d \in CommentData : d.author = "u1" /\ d.post = 1}
FirstPostData == {d \in PlainPostData : d.category = "news" /\ d.pub_date = 0}
EarlyPostData == {d \in PlainPostData : d.pub_date = 0}
\* Form data carrying an author (and a post) other than the requester's.
ForgedPostData == {d \in PostData : d.author = "u2" /\ ~d.is_published /\ d.pub_date = 0}
ForgedCommentData == {d \in CommentData : d.author = "u2" /\ d.post = MaxPosts}

\* Post visibility: posts of every kind, viewed by every viewer as time passes.
NextDetail ==
    \/ Tick
    \/ \E v \in Viewers, d \in PlainPostData, b \in BOOLEAN : PostCreate(v, d, b)
    \/ \E v \in Viewers, pk \in PostPks : PostDetail(v, pk)

SpecDetail == Init /\ [][NextDetail]_vars

\* Post mutation: posts created, edited and deleted by every viewer.
NextPostEdit ==
    \/ \E v \in Viewers, d \in FirstPostData : PostCreate(v, d, TRUE)
    \/ \E v \in Viewers, pk \in PostPks, m \in Methods, d \in PlainPostData :
          PostUpdate(v, pk, m, d)
    \/ \E v \in Viewers, pk \in PostPks, m \in Methods : PostDelete(v, pk, m)

SpecPostEdit == Init /\ [][NextPostEdit]_vars

\* The first page of each feed, over posts of every kind, as time passes.
NextFeeds ==
    \/ Tick
    \/ \E v \in Users, d \in PlainPostData, b \in BOOLEAN : PostCreate(v, d, b)
    \/ \E v \in Viewers : PostList(v, 1)
    \/ \E v \in Viewers, u \in Users : ProfileList(v, u, 1)
    \/ \E v \in Viewers, s \in DOMAIN Category : CategoryPostList(v, s, 1)

SpecFeeds == Init /\ [][NextFeeds]_vars

\* Every page of each feed, for known and unknown categories and users.
NextPages ==
    \/ \E v \in Users, d \in EarlyPostData : PostCreate(v, d, TRUE)
    \/ \E n \in Pages : PostList(Anonymous, n)
    \/ \E v \in Viewers, u \in Usernames, n \in Pages : ProfileList(v, u, n)
    \/ \E s \in Slugs, n \in Pages : CategoryPostList(Anonymous, s, n)

SpecPages == Init /\ [][NextPages]_vars

\* Comment mutation on published posts.
NextComments ==
    \/ \E v \in Users, d \in FirstPostData : PostCreate(v, d, TRUE)
    \/ \E v \in Viewers, pk \in PostPks, d \in PlainCommentData : CommentCreate(v, pk, d)
    \/ \E v \in Viewers, pk \in PostPks, c \in CommentPks, m \in Methods,
          d \in PlainCommentData : CommentUpdate(v, pk, c, m, d)
    \/ \E v \in Viewers, pk \in PostPks, c \in CommentPks, m \in Methods :
          CommentDelete(v, pk, c, m)

SpecComments == Init /\ [][NextComments]_vars

\* Comment counts in the first page of each feed.
NextCounts ==
    \/ \E v \in Users, d \in FirstPostData : PostCreate(v, d, TRUE)
    \/ \E v \in Users, pk \in PostPks, d \in PlainCommentData : CommentCreate(v, pk, d)
    \/ \E v \in Users, pk \in PostPks, c \in CommentPks : CommentDelete(v, pk, c, "POST")
    \/ \E v \in Viewers : PostList(v, 1)
    \/ \E v \in Viewers, u \in Users : ProfileList(v, u, 1)
    \/ \E v \in Viewers, s \in DOMAIN Category : CategoryPostList(v, s, 1)

SpecCounts == Init /\ [][NextCounts]_vars

\* Authorship: creation and editing with another author (and post) in the data.
NextAuthorship ==
    \/ \E v \in Users, d \in ForgedPostData : PostCreate(v, d, TRUE)
    \/ \E v \in Users, pk \in PostPks, d \in ForgedPostData : PostUpdate(v, pk, "POST", d)
    \/ \E v \in Users, pk \in PostPks, d \in ForgedCommentData : CommentCreate(v, pk, d)
    \/ \E v \in Users, pk \in PostPks, c \in CommentPks, d \in ForgedCommentData :
          CommentUpdate(v, pk, c, "POST", d)

SpecAuthorship == Init /\ [][NextAuthorship]_vars

\* ---------------------------------------------------------------- properties
\* The public-visibility condition of a post row, as the specification words it.
PubliclyVisible(p) ==
    p.is_published = TRUE /\ Category[p.category] = TRUE /\ p.pub_date <= now

ListedPks(ol) == {ol[i].pk : i \in DOMAIN ol}

StoredCount(pk) == Cardinality({c \in DOMAIN comments : comments[c].post = pk})

\* C1: a post-detail request returns the post iff the post exists and the viewer
\* is its author or the post is published, in a published category and not
\* future-dated; every other request ends not-found.
C1_DetailVisibility ==
    resp.op = "post_detail" =>
        /\ resp.outcome \in {"ok", "404"}
        /\ resp.outcome = "ok" <=>
              /\ resp.pk \in DOMAIN posts
              /\ \/ resp.viewer = posts[resp.pk].author
                 \/ PubliclyVisible(posts[resp.pk])

\* An author is shown their own post that nobody else may see.
C1_Witness ==
    /\ resp.op = "post_detail" /\ resp.outcome = "ok"
    /\ resp.viewer = posts[resp.pk].author
    /\ ~PubliclyVisible(posts[resp.pk])

\* C2: the profile feed shows the owner all of their posts, and shows anyone else
\* only posts that are published, in a published category and not future-dated.
C2_ProfileVisibility ==
    (resp.op = "profile" /\ resp.outcome = "ok") =>
        IF resp.viewer = resp.name
        THEN ListedPks(resp.object_list) =
                 {pk \in DOMAIN posts : posts[pk].author = resp.name}
        ELSE \A pk \in ListedPks(resp.object_list) : PubliclyVisible(posts[pk])

\* C3: every post in the profile feed of u is authored by u.
C3_ProfileScope ==
    (resp.op = "profile" /\ resp.outcome = "ok") =>
        \A pk \in ListedPks(resp.object_list) : posts[pk].author = resp.name

\* C4: the global feed and the category feed list only posts that are published,
\* in a published category and not future-dated, whoever asks.
C4_PublicFeedsHideHidden ==
    (resp.op \in {"index", "category"} /\ resp.outcome = "ok") =>
        /\ \A pk \in ListedPks(resp.object_list) :
              pk \in DOMAIN posts /\ PubliclyVisible(posts[pk])
        /\ \A i \in DOMAIN resp.page_items :
              resp.page_items[i].pk \in ListedPks(resp.object_list)

\* The author of a hidden post asks for the global feed, which lists another post.
C4_Witness ==
    /\ resp.op = "index" /\ resp.outcome = "ok"
    /\ Len(resp.object_list) > 0
    /\ \E pk \in DOMAIN posts :
          posts[pk].author = resp.viewer /\ ~PubliclyVisible(posts[pk])

\* C5: an edit or delete request (GET or POST) for an existing post by a logged-in
\* viewer who is not its author is answered with a redirect to the post's detail
\* view and changes no row.
C5_NonAuthorPostMutation ==
    [][ (/\ resp'.op \in {"edit_post", "delete_post"}
         /\ resp'.viewer \in Users
         /\ resp'.pk \in DOMAIN posts
         /\ posts[resp'.pk].author # resp'.viewer)
        => (/\ resp'.outcome = "redirect_detail"
            /\ posts' = posts
            /\ comments' = comments) ]_vars

\* A non-author's POST to delete an existing post was answered with the redirect.
C5_Witness ==
    /\ resp.op = "delete_post" /\ resp.method = "POST"
    /\ resp.viewer \in Users
    /\ resp.pk \in DOMAIN posts
    /\ posts[resp.pk].author # resp.viewer
    /\ resp.outcome = "redirect_detail"

\* C6: a comment edit/delete request reaches the comment only if the comment exists,
\* belongs to the post in the URL and is the viewer's; otherwise a logged-in viewer
\* gets not-found and no comment row changes.
C6_CommentMutationGuard ==
    [][ resp'.op \in {"edit_comment", "delete_comment"} =>
          LET reaches == /\ resp'.cpk \in DOMAIN comments
                         /\ comments[resp'.cpk].post = resp'.pk
                         /\ comments[resp'.cpk].author = resp'.viewer
          IN /\ resp'.outcome \in {"form", "redirect_detail"} => reaches
             /\ (~reaches /\ resp'.viewer \in Users) =>
                   (resp'.outcome = "404" /\ comments' = comments) ]_vars

\* The comment's own author asked for it under another existing post: not-found.
C6_Witness ==
    /\ resp.op = "delete_comment" /\ resp.method = "POST"
    /\ resp.cpk \in DOMAIN comments
    /\ comments[resp.cpk].author = resp.viewer
    /\ resp.pk \in DOMAIN posts
    /\ comments[resp.cpk].post # resp.pk
    /\ resp.outcome = "404"

\* C7: in each of the three feeds every listed post carries the number of stored
\* comments that reference it.
C7_CommentCounts ==
    (resp.op \in {"index", "category", "profile"} /\ resp.outcome = "ok") =>
        \A i \in DOMAIN resp.object_list :
            resp.object_list[i].comments_count = StoredCount(resp.object_list[i].pk)

\* The queryset the feed request in resp was answered from (the store has not
\* changed since: every later request or tick replaces resp).
RequestedQueryset ==
    CASE resp.op = "index" -> PostListView_get_queryset
      [] resp.op = "profile" -> ProfileListView_get_queryset(resp.name, resp.viewer)
      [] resp.op = "category" -> CategoryPostListView_get_queryset(resp.name)
      [] OTHER -> <<>>

FeedExists ==
    \/ resp.op = "index"
    \/ resp.op = "profile" /\ resp.name \in Users
    \/ resp.op = "category" /\ resp.name \in DOMAIN Category /\ Category[resp.name]

LastPage(ol) == IF Len(ol) = 0 THEN 1 ELSE (Len(ol) + POSTS_PER_PAGE - 1) \div POSTS_PER_PAGE

Slice(ol, n) ==
    [i \in 1..(IF n * POSTS_PER_PAGE <= Len(ol) THEN POSTS_PER_PAGE
               ELSE Len(ol) - (n - 1) * POSTS_PER_PAGE)
        |-> ol[(n - 1) * POSTS_PER_PAGE + i]]

\* C8 as stated: a page number past the last page is answered with the last
\* page's content, never with not-found.
C8_OutOfRangeGivesLastPage ==
    (FeedExists /\ resp.page > LastPage(RequestedQueryset)) =>
        /\ resp.outcome = "ok"
        /\ resp.page_items = Slice(RequestedQueryset, LastPage(RequestedQueryset))

\* C8 amended: pages are 1-indexed with a fixed size; page n of an existing feed,
\* 1 <= n <= last page, is rows (n-1)*size+1 .. n*size of the feed, and a page
\* number past the last page is answered not-found.
C8_Pagination ==
    FeedExists =>
        /\ resp.page \in 1..LastPage(RequestedQueryset) =>
              /\ resp.outcome = "ok"
              /\ resp.page_items = Slice(RequestedQueryset, resp.page)
              /\ Len(resp.page_items) <= POSTS_PER_PAGE
        /\ resp.page > LastPage(RequestedQueryset) => resp.outcome = "404"

\* A feed of two pages was asked for page three.
C8_Witness ==
    /\ FeedExists
    /\ LastPage(RequestedQueryset) >= 2
    /\ resp.page > LastPage(RequestedQueryset)
    /\ resp.outcome = "404"

\* C9: the category feed of an unknown or unpublished category is not-found as a
\* whole; the feed of a published category is returned, even when it is empty
\* (its first page always is).
C9_CategoryFeed ==
    resp.op = "category" =>
        IF resp.name \in DOMAIN Category /\ Category[resp.name]
        THEN /\ resp.page = 1 => resp.outcome = "ok"
             /\ resp.outcome = "ok" =>
                   \A pk \in ListedPks(resp.object_list) : posts[pk].category = resp.name
        ELSE resp.outcome = "404"

\* The feed of an unpublished category that holds a post was asked for: not-found.
C9_Witness ==
    /\ resp.op = "category" /\ resp.page = 1
    /\ resp.name \in DOMAIN Category /\ ~Category[resp.name]
    /\ \E pk \in DOMAIN posts : posts[pk].category = resp.name
    /\ resp.outcome = "404"

\* C10: every post's author is the viewer who created it, and every comment's
\* author and post are the viewer and post it was created with, whatever the
\* later edits submitted.
C10_AuthorshipFixed ==
    /\ \A pk \in DOMAIN posts : posts[pk].author = postCreator[pk]
    /\ \A c \in DOMAIN comments :
          /\ comments[c].author = commentOrigin[c].author
          /\ comments[c].post = commentOrigin[c].post

\* u1 saved an edit of their own post whose form data named u2 as author, and
\* a comment of u1 on post 1 exists after form data naming another post.
C10_Witness ==
    /\ resp.op = "edit_post" /\ resp.method = "POST"
    /\ resp.viewer = "u1"
    /\ resp.pk \in DOMAIN posts
    /\ posts[resp.pk].author = "u1"
    /\ resp.outcome = "redirect_detail"
    /\ \E c \in DOMAIN comments : comments[c].author = "u1" /\ comments[c].post = 1

====
